---------------------------- MODULE Spec2Model ----------------------------
(***************************************************************************)
(* A model of k-number-utils: the BigIntCoercion class (bigint-coercion.ts)*)
(* and the stringToBigInt seed encoder (str-to-bigint.ts).                 *)
(*                                                                         *)
(* TLC's integers are 32 bits wide, the program's values are not, so an    *)
(* arbitrary-precision integer is a sign and a magnitude, the magnitude a  *)
(* little-endian sequence of base-256 limbs without leading zero limbs.    *)
(* A host number holding an integer is represented the same way; a host    *)
(* string is its sequence of UTF-16 code units.                            *)
(***************************************************************************)
EXTENDS Integers, Sequences, FiniteSets

VARIABLES
    heap,     \* the BigIntCoercion instances alive: {} or one [value |-> bigint]
    given,    \* the argument handed to the entry call (constructor or stringToBigInt)
    last,     \* the last call made: its name, its arguments and its outcome
    pinned,   \* an earlier call and its outcome, kept to compare later calls against
    encodes   \* the calls of TextEncoder.encode made so far: encoder and text

vars == <<heap, given, last, pinned, encodes>>

---------------------------------------------------------------------------
(* Bounds of the model *)

\* the longest magnitude, in limbs, of a constructor argument where the
\* conversions are checked one by one (9 limbs = 72 bits)
MaxLimbs == 9

\* the longest magnitude, in limbs, of a constructor argument where every
\* method is called
SmallLimbs == 3

\* the longest seed text, in UTF-16 code units
MaxSeedLen == 2

\* the most calls of TextEncoder.encode in a run of repeated stringToBigInt
\* calls
MaxCalls == 3

---------------------------------------------------------------------------
(* Magnitudes: little-endian sequences of limbs in 0..255 *)

Min(a, b) == IF a < b THEN a ELSE b

Max(a, b) == IF a > b THEN a ELSE b

RECURSIVE Trim(_)
Trim(m) ==
    IF m = <<>> THEN <<>>
    ELSE IF m[Len(m)] = 0 THEN Trim(SubSeq(m, 1, Len(m) - 1))
    ELSE m

Fill(n, a) == [i \in 1..n |-> a]

\* limb i of m, 0 beyond its length
Limb(m, i) == IF i >= 1 /\ i <= Len(m) THEN m[i] ELSE 0

\* bit i (from 0) of magnitude m
BitOf(m, i) == (Limb(m, (i \div 8) + 1) \div (2 ^ (i % 8))) % 2

\* the number of significant bits of a limb
RECURSIVE LimbBitLen(_)
LimbBitLen(b) == IF b = 0 THEN 0 ELSE 1 + LimbBitLen(b \div 2)

\* the number of significant bits of a trimmed magnitude
BitLen(m) == IF m = <<>> THEN 0 ELSE 8 * (Len(m) - 1) + LimbBitLen(m[Len(m)])

\* m mod 2^bits: the low bits of m
LowBits(m, bits) ==
    LET k == bits \div 8
        r == bits % 8
        full == SubSeq(m, 1, Min(k, Len(m)))
        part == IF r > 0 /\ Len(m) > k THEN <<m[k + 1] % (2 ^ r)>> ELSE <<>>
    IN  Trim(full \o part)

\* 0 - m limb by limb with borrow, limbs i..n, as the engine subtracts a
\* truncated magnitude from a power of two
RECURSIVE SubFromZero(_, _, _, _)
SubFromZero(m, i, n, borrow) ==
    IF i > n THEN <<>>
    ELSE LET d == 0 - Limb(m, i) - borrow
         IN  <<d % 256>> \o SubFromZero(m, i + 1, n, IF d < 0 THEN 1 ELSE 0)

\* 2^bits - m for 0 < m < 2^bits
PowerOfTwoMinus(m, bits) ==
    LET n == (bits + 7) \div 8
    IN  LowBits(SubFromZero(m, 1, n, 0), bits)

\* a + b with carry
RECURSIVE AddLimbs(_, _, _, _)
AddLimbs(a, b, i, carry) ==
    IF i > Max(Len(a), Len(b))
    THEN (IF carry = 0 THEN <<>> ELSE <<carry>>)
    ELSE LET s == Limb(a, i) + Limb(b, i) + carry
         IN  <<s % 256>> \o AddLimbs(a, b, i + 1, s \div 256)

AddMag(a, b) == Trim(AddLimbs(a, b, 1, 0))

\* a - b for a >= b
RECURSIVE SubLimbs(_, _, _, _)
SubLimbs(a, b, i, borrow) ==
    IF i > Len(a) THEN <<>>
    ELSE LET d == Limb(a, i) - Limb(b, i) - borrow
         IN  <<d % 256>> \o SubLimbs(a, b, i + 1, IF d < 0 THEN 1 ELSE 0)

SubMag(a, b) == Trim(SubLimbs(a, b, 1, 0))

\* -1, 0, 1 as a < b, a = b, a > b (trimmed magnitudes), from limb i down
RECURSIVE CmpFrom(_, _, _)
CmpFrom(a, b, i) ==
    IF i = 0 THEN 0
    ELSE IF a[i] < b[i] THEN -1
    ELSE IF a[i] > b[i] THEN 1
    ELSE CmpFrom(a, b, i - 1)

CmpMag(a, b) ==
    IF Len(a) < Len(b) THEN -1
    ELSE IF Len(a) > Len(b) THEN 1
    ELSE CmpFrom(a, b, Len(a))

\* 2^k as a magnitude
PowerOfTwo(k) == Fill(k \div 8, 0) \o <<2 ^ (k % 8)>>

\* the magnitude of a small natural number
RECURSIVE MagOfNat(_)
MagOfNat(n) == IF n = 0 THEN <<>> ELSE <<n % 256>> \o MagOfNat(n \div 256)

\* the natural number of a magnitude below 2^31
RECURSIVE NatOfMag(_)
NatOfMag(m) == IF m = <<>> THEN 0 ELSE m[1] + 256 * NatOfMag(Tail(m))

\* the limbs i..j of m divided by a small divisor d, from limb j down, with
\* the remainder of the limbs above carried in: the upper half of the limbs
\* first, then the lower half with the remainder that leaves
RECURSIVE DivLimbs(_, _, _, _, _)
DivLimbs(m, d, i, j, rem) ==
    IF i = j
    THEN LET cur == rem * 256 + m[i]
         IN  [quot |-> <<cur \div d>>, rem |-> cur % d]
    ELSE LET mid == (i + j) \div 2
             upper == DivLimbs(m, d, mid + 1, j, rem)
             lower == DivLimbs(m, d, i, mid, upper.rem)
         IN  [quot |-> lower.quot \o upper.quot, rem |-> lower.rem]

\* m \div d and m % d for a small divisor d
DivSmall(m, d) ==
    IF m = <<>> THEN [quot |-> <<>>, rem |-> 0]
    ELSE LET r == DivLimbs(m, d, 1, Len(m), 0)
         IN  [quot |-> Trim(r.quot), rem |-> r.rem]


\* m \div 2^s
ShiftRight(m, s) ==
    LET k == s \div 8
        r == s % 8
    IN  Trim([i \in 1..Max(Len(m) - k, 0) |->
                (Limb(m, i + k) \div (2 ^ r))
                + (Limb(m, i + k + 1) % (2 ^ r)) * (2 ^ (8 - r))])

\* m * 2^s
ShiftLeft(m, s) ==
    LET k == s \div 8
        r == s % 8
    IN  Trim(Fill(k, 0) \o
             [i \in 1..(Len(m) + 1) |->
                ((Limb(m, i) * (2 ^ r)) % 256)
                + (Limb(m, i - 1) \div (2 ^ (8 - r)))])

\* bitwise AND of two naturals below 2^bits, a half of the bits at a time
RECURSIVE BitAndBits(_, _, _)
BitAndBits(a, b, bits) ==
    IF bits = 1 THEN a * b
    ELSE LET half == bits \div 2
         IN  BitAndBits(a % (2 ^ half), b % (2 ^ half), half)
             + (2 ^ half) * BitAndBits(a \div (2 ^ half), b \div (2 ^ half), bits - half)

\* bitwise AND of two naturals below 2^31
BitAnd(a, b) == BitAndBits(a, b, 31)

---------------------------------------------------------------------------
(* Host values.  kind is the value's kind; neg and mag hold the integer of *)
(* a bigint, of a number, or of an instance's value field; units holds the *)
(* UTF-16 code units of a string; flag holds a boolean.                    *)

JSValue(kind, neg, mag, units, flag) ==
    [kind |-> kind, neg |-> neg, mag |-> mag, units |-> units, flag |-> flag]

JSBigInt(neg, mag) ==
    LET t == Trim(mag) IN JSValue("bigint", neg /\ t # <<>>, t, <<>>, FALSE)

JSNumber(neg, mag) ==
    LET t == Trim(mag) IN JSValue("number", neg /\ t # <<>>, t, <<>>, FALSE)

JSString(units) == JSValue("string", FALSE, <<>>, units, FALSE)

JSBoolean(b) == JSValue("boolean", FALSE, <<>>, <<>>, b)

JSUndefined == JSValue("undefined", FALSE, <<>>, <<>>, FALSE)

JSNull == JSValue("null", FALSE, <<>>, <<>>, FALSE)

JSObject == JSValue("object", FALSE, <<>>, <<>>, FALSE)

JSArray == JSValue("array", FALSE, <<>>, <<>>, FALSE)

\* an object with neither toString nor valueOf, such as Object.create(null)
JSBareObject == JSValue("bare", FALSE, <<>>, <<>>, FALSE)

\* a TextEncoder instance; id tells instances apart, 0 is the one a call makes
\* for itself
JSTextEncoder(id) == JSValue("encoder", FALSE, <<id>>, <<>>, FALSE)

\* a reference to a BigIntCoercion instance whose value field is v
JSInstance(v) == JSValue("instance", v.neg, v.mag, <<>>, FALSE)

\* the typeof operator
TypeOf(x) ==
    IF x.kind \in {"null", "object", "array", "bare", "instance", "encoder"}
    THEN "object" ELSE x.kind

\* what a call does: it returns a value, or throws an error of a class with a
\* message (code units)
Return(val) == [tag |-> "return", val |-> val, err |-> "", msg |-> <<>>]

\* an error thrown with a message of the program's
ThrowWith(class, msg) == [tag |-> "throw", val |-> JSUndefined, err |-> class, msg |-> msg]

\* an error thrown by the host: its message is the engine's own, not kept here
Throw(class) == ThrowWith(class, <<>>)

---------------------------------------------------------------------------
(* The host's BigInt and Number built-ins that the class calls *)

\* BigInt.asUintN(bits, x): x modulo 2^bits
AsUintN(bits, x) ==
    LET low == LowBits(x.mag, bits)
    IN  IF ~x.neg \/ low = <<>>
        THEN JSBigInt(FALSE, low)
        ELSE JSBigInt(FALSE, PowerOfTwoMinus(low, bits))

\* BigInt.asIntN(bits, x): x modulo 2^bits, minus 2^bits when bit bits-1 is set
AsIntN(bits, x) ==
    LET mod == AsUintN(bits, x)
    IN  IF BitOf(mod.mag, bits - 1) = 1
        THEN JSBigInt(TRUE, PowerOfTwoMinus(mod.mag, bits))
        ELSE mod

\* the nearest single-precision float to a magnitude: 24 significant bits
RoundToDouble_Single(m) ==
    LET len == BitLen(m)
        s == len - 24
    IN  IF s <= 0 THEN m
        ELSE LET kept == ShiftRight(m, s)
                 half == BitOf(m, s - 1) = 1
                 sticky == LowBits(m, s - 1) # <<>>
                 odd == BitOf(m, s) = 1
                 up == half /\ (sticky \/ odd)
             IN  ShiftLeft(IF up THEN AddMag(kept, <<1>>) ELSE kept, s)

\* the nearest double to a magnitude, ties to even: 53 significant bits are kept
\* (a magnitude of the model is far below 2^1024, where Number() gives Infinity)
RoundToDouble(m) ==
    LET len == BitLen(m)
        s == len - 53
    IN  IF s <= 0 THEN m
        ELSE LET kept == ShiftRight(m, s)
                 half == BitOf(m, s - 1) = 1
                 sticky == LowBits(m, s - 1) # <<>>
                 odd == BitOf(m, s) = 1
                 up == half /\ (sticky \/ odd)
             IN  ShiftLeft(IF up THEN AddMag(kept, <<1>>) ELSE kept, s)

\* Number(x) of a bigint x
NumberOf(x) == JSNumber(x.neg, RoundToDouble(x.mag))

\* -x of a bigint x
Negate(x) == JSBigInt(~x.neg, x.mag)

\* x < 0n
IsNegativeBigInt(x) == x.neg

\* x % 2n: the remainder has the sign of the dividend
RemTwo(x) == JSBigInt(x.neg, MagOfNat(Limb(x.mag, 1) % 2))

\* the code unit of a digit: 0-9, a-z
DigitUnit(d) == IF d < 10 THEN 48 + d ELSE 87 + d

\* the number of digits taken off a magnitude by one division: the largest c
\* with radix^c <= 2^22
ChunkWidth(radix) ==
    IF radix = 2 THEN 22
    ELSE IF radix = 3 THEN 13
    ELSE IF radix = 4 THEN 11
    ELSE IF radix = 5 THEN 9
    ELSE IF radix = 6 THEN 8
    ELSE IF radix <= 8 THEN 7
    ELSE IF radix <= 12 THEN 6
    ELSE IF radix <= 21 THEN 5
    ELSE 4

\* the digits of a natural number below radix^width, most significant first,
\* padded with zeros to the width
PaddedDigits(n, radix, width) ==
    [i \in 1..width |-> DigitUnit((n \div (radix ^ (width - i))) % radix)]

\* the digits of a natural number below radix^ChunkWidth(radix), without
\* leading zeros
NatDigits(n, radix) ==
    LET width == ChunkWidth(radix)
        padded == PaddedDigits(n, radix, width)
        zeros == Cardinality({i \in 1..width : \A j \in 1..i : padded[j] = 48})
    IN  SubSeq(padded, zeros + 1, width)

\* the digits of magnitude m in a radix, most significant first, a chunk of
\* digits at a time
RECURSIVE Digits(_, _)
Digits(m, radix) ==
    IF m = <<>> THEN <<>>
    ELSE LET width == ChunkWidth(radix)
             qr == DivSmall(m, radix ^ width)
         IN  IF qr.quot = <<>> THEN NatDigits(qr.rem, radix)
             ELSE Digits(qr.quot, radix) \o PaddedDigits(qr.rem, radix, width)

\* BigInt.prototype.toString(radix): a RangeError unless 2 <= radix <= 36
\* (undefined means 10), else "-" for a negative value and then the digits
BigIntToString(x, radix) ==
    LET r == IF radix.kind = "undefined" THEN 10
             ELSE IF radix.neg THEN 0 - NatOfMag(radix.mag)
             ELSE NatOfMag(radix.mag)
    IN  IF r < 2 \/ r > 36 THEN Throw("RangeError")
        ELSE Return(JSString(
                 (IF x.neg THEN <<45>> ELSE <<>>)
                 \o (IF x.mag = <<>> THEN <<48>> ELSE Digits(x.mag, r))))

\* the name typeof gives, as code units
TypeOfUnits(x) ==
    CASE TypeOf(x) = "bigint" -> <<98, 105, 103, 105, 110, 116>>
      [] TypeOf(x) = "string" -> <<115, 116, 114, 105, 110, 103>>
      [] TypeOf(x) = "number" -> <<110, 117, 109, 98, 101, 114>>
      [] TypeOf(x) = "object" -> <<111, 98, 106, 101, 99, 116>>
      [] TypeOf(x) = "undefined" -> <<117, 110, 100, 101, 102, 105, 110, 101, 100>>
      [] TypeOf(x) = "boolean" -> <<98, 111, 111, 108, 101, 97, 110>>

\* String(x): "null", "undefined", "true" or "false", a string itself, the
\* decimal digits of a bigint or of an integral number below 10^21,
\* "[object Object]" for an object, "" for an empty array; an object with
\* neither toString nor valueOf has no primitive value and the host throws
\* its TypeError
StringOf(x) ==
    CASE x.kind = "null" -> Return(JSString(<<110, 117, 108, 108>>))
      [] x.kind = "undefined" ->
             Return(JSString(<<117, 110, 100, 101, 102, 105, 110, 101, 100>>))
      [] x.kind = "boolean" ->
             Return(JSString(IF x.flag THEN <<116, 114, 117, 101>>
                             ELSE <<102, 97, 108, 115, 101>>))
      [] x.kind = "string" -> Return(x)
      [] x.kind \in {"bigint", "number"} ->
             BigIntToString(x, JSNumber(FALSE, <<10>>))
      [] x.kind \in {"object", "instance"} ->
             Return(JSString(<<91, 111, 98, 106, 101, 99, 116, 32,
                               79, 98, 106, 101, 99, 116, 93>>))
      [] x.kind = "array" -> Return(JSString(<<>>))
      [] x.kind = "bare" -> Throw("TypeError")

\* throw new TypeError(`Expected a ${kind}, but received ${typeof value}.
\* Value: ${String(value)}`): the message is built first, and String(value)
\* throwing ends the call with the host's error instead
ThrowExpected(kind, value) ==
    LET rendered == StringOf(value)
    IN  IF rendered.tag = "throw" THEN rendered
        ELSE ThrowWith("TypeError",
                 <<69, 120, 112, 101, 99, 116, 101, 100, 32, 97, 32>> \o kind
                 \o <<44, 32, 98, 117, 116, 32, 114, 101, 99, 101, 105, 118, 101, 100, 32>>
                 \o TypeOfUnits(value)
                 \o <<46, 32, 86, 97, 108, 117, 101, 58, 32>>
                 \o rendered.val.units)

\* String.fromCharCode(n): the one code unit n modulo 2^16
FromCharCode(n) == JSString(<<n % 65536>>)

\* String.fromCodePoint(cp): a RangeError above 0x10FFFF, one code unit below
\* 0x10000, else the surrogate pair
FromCodePoint(cp) ==
    IF cp < 0 \/ cp > 1114111 THEN Throw("RangeError")
    ELSE IF cp < 65536 THEN Return(JSString(<<cp>>))
    ELSE Return(JSString(<<55296 + ((cp - 65536) \div 1024),
                           56320 + ((cp - 65536) % 1024)>>))


---------------------------------------------------------------------------
(* class BigIntCoercion.  An instance is [value |-> bigint]; a method is    *)
(* an operator from the instance (and the arguments) to the call's outcome. *)

\* a constructor that rejects strings only
Constructor_StringsOnly(value) ==
    IF TypeOf(value) = "string"
    THEN [out |-> Throw("TypeError"), objs |-> {}]
    ELSE [out |-> Return(JSInstance(value)), objs |-> {[value |-> value]}]

\* new BigIntCoercion(value): the outcome and the instances created
Constructor(value) ==
    IF TypeOf(value) # "bigint"
    THEN [out |-> ThrowExpected(<<98, 105, 103, 105, 110, 116>>, value), objs |-> {}]
    ELSE [out |-> Return(JSInstance(value)), objs |-> {[value |-> value]}]

\* equals comparing the values as host numbers
equals_ByNumber(self, other) ==
    IF other.kind \in {"null", "undefined"} THEN Throw("TypeError")
    ELSE Return(JSBoolean(NumberOf(self.value) = NumberOf(JSBigInt(other.neg, other.mag))))

\* reading other.value throws on null and undefined
equals(self, other) ==
    IF other.kind \in {"null", "undefined"} THEN Throw("TypeError")
    ELSE Return(JSBoolean(self.value = JSBigInt(other.neg, other.mag)))

toBigInt(self) == Return(self.value)

\* toInt8 clamping to -128..127 instead of wrapping
toInt8_Saturating(self) ==
    Return(NumberOf(IF CmpMag(self.value.mag, <<128>>) < 0 THEN self.value
                    ELSE IF self.value.neg THEN JSBigInt(TRUE, <<128>>)
                    ELSE JSBigInt(FALSE, <<127>>)))

toInt8(self) == Return(NumberOf(AsIntN(8, self.value)))

\* toUint8 calling asIntN where asUintN is meant
toUint8_Signed(self) == Return(NumberOf(AsIntN(8, self.value)))

toUint8(self) == Return(NumberOf(AsUintN(8, self.value)))

\* toInt16 calling asUintN where asIntN is meant
toInt16_Unsigned(self) == Return(NumberOf(AsUintN(16, self.value)))

toInt16(self) == Return(NumberOf(AsIntN(16, self.value)))

toUint16(self) == Return(NumberOf(AsUintN(16, self.value)))

toInt32(self) == Return(NumberOf(AsIntN(32, self.value)))

\* toUint32 with the width of toUint64
toUint32_Wide(self) == Return(NumberOf(AsUintN(64, self.value)))

toUint32(self) == Return(NumberOf(AsUintN(32, self.value)))

\* toAbsInt32 as the magnitude of the signed 32-bit conversion
toAbsInt32_OfInt32(self) ==
    LET int32 == AsIntN(32, self.value)
        abs == IF IsNegativeBigInt(int32) THEN Negate(int32) ELSE int32
    IN  Return(NumberOf(AsUintN(31, abs)))

\* toAbsInt32 without the sign test
toAbsInt32_Signed(self) == Return(NumberOf(AsUintN(31, self.value)))

\* toAbsInt32 clamping at 2147483647 instead of wrapping
toAbsInt32_Clamped(self) ==
    LET abs == IF IsNegativeBigInt(self.value) THEN Negate(self.value) ELSE self.value
    IN  IF BitLen(abs.mag) > 31
        THEN Return(JSNumber(FALSE, <<255, 255, 255, 127>>))
        ELSE Return(NumberOf(abs))

toAbsInt32(self) ==
    LET abs == IF IsNegativeBigInt(self.value) THEN Negate(self.value) ELSE self.value
    IN  Return(NumberOf(AsUintN(31, abs)))

toInt64(self) == Return(NumberOf(AsIntN(64, self.value)))

toUint64(self) == Return(NumberOf(AsUintN(64, self.value)))

\* toBigInt64 with the width of toInt32
toBigInt64_Narrow(self) == Return(AsIntN(32, self.value))

toBigInt64(self) == Return(AsIntN(64, self.value))

toBigUint64(self) == Return(AsUintN(64, self.value))

\* toChar taking the code unit from toUint8
toChar_Narrow(self) ==
    LET codePoint == toUint8(self).val
    IN  Return(FromCharCode(NatOfMag(codePoint.mag)))

toChar(self) ==
    LET codePoint == toUint16(self).val
    IN  Return(FromCharCode(NatOfMag(codePoint.mag)))

\* toCodePoint without the range test
toCodePoint_Unmasked(self) ==
    FromCodePoint(NatOfMag(NumberOf(AsUintN(21, self.value)).mag))

\* toCodePoint reducing modulo 0x110000 where the mask is meant
toCodePoint_Modulo(self) ==
    FromCodePoint(NatOfMag(NumberOf(AsUintN(21, self.value)).mag) % 1114112)

\* toCodePoint masking with 0xffff
toCodePoint_Mask16(self) ==
    LET codePoint == NatOfMag(NumberOf(AsUintN(21, self.value)).mag)
    IN  IF codePoint > 1114111
        THEN FromCodePoint(BitAnd(codePoint, 65535))
        ELSE FromCodePoint(codePoint)

toCodePoint(self) ==
    LET codePoint == NatOfMag(NumberOf(AsUintN(21, self.value)).mag)
    IN  IF codePoint > 1114111
        THEN FromCodePoint(BitAnd(codePoint, 1114111))
        ELSE FromCodePoint(codePoint)

toNumber(self) == Return(NumberOf(self.value))

\* a parameter with a default: the default stands in for undefined
Default(arg, dflt) == IF arg.kind = "undefined" THEN dflt ELSE arg

\* the prefix parameter defaulting to false
Prefixed_DefaultOff(prefix, marker, rendered) ==
    IF rendered.tag = "throw" THEN rendered
    ELSE IF Default(prefix, JSBoolean(FALSE)).flag
    THEN Return(JSString(marker \o rendered.val.units))
    ELSE rendered

\* `${marker}${digits}` when prefix holds, the digits alone otherwise
Prefixed(prefix, marker, rendered) ==
    IF rendered.tag = "throw" THEN rendered
    ELSE IF Default(prefix, JSBoolean(TRUE)).flag
    THEN Return(JSString(marker \o rendered.val.units))
    ELSE rendered

toHex(self, prefix) ==
    Prefixed(prefix, <<48, 120>>, BigIntToString(self.value, JSNumber(FALSE, <<16>>)))

toBinary(self, prefix) ==
    Prefixed(prefix, <<48, 98>>, BigIntToString(self.value, JSNumber(FALSE, <<2>>)))

toOctal(self, prefix) ==
    Prefixed(prefix, <<48, 111>>, BigIntToString(self.value, JSNumber(FALSE, <<8>>)))

\* toString rendering in base 10 whatever the radix
toString_Decimal(self, radix) ==
    BigIntToString(self.value, JSNumber(FALSE, <<10>>))

toString(self, radix) ==
    BigIntToString(self.value, Default(radix, JSNumber(FALSE, <<10>>)))

isZero(self) == Return(JSBoolean(self.value = JSBigInt(FALSE, <<>>)))

isPositive(self) == Return(JSBoolean(~self.value.neg /\ self.value.mag # <<>>))

isNegative(self) == Return(JSBoolean(IsNegativeBigInt(self.value)))

isEven(self) == Return(JSBoolean(RemTwo(self.value) = JSBigInt(FALSE, <<>>)))

\* isOdd comparing the remainder with 1n
isOdd_RemainderOne(self) == Return(JSBoolean(RemTwo(self.value) = JSBigInt(FALSE, <<1>>)))

isOdd(self) == Return(JSBoolean(RemTwo(self.value) # JSBigInt(FALSE, <<>>)))

---------------------------------------------------------------------------
(* stringToBigInt and the host's TextEncoder *)

IsHighSurrogate(u) == u >= 55296 /\ u <= 56319

IsLowSurrogate(u) == u >= 56320 /\ u <= 57343

\* the scalar values of a string: a surrogate pair is one scalar, a lone
\* surrogate is replaced by U+FFFD
RECURSIVE Scalars(_)
Scalars(units) ==
    IF units = <<>> THEN <<>>
    ELSE IF IsHighSurrogate(units[1]) /\ Len(units) >= 2 /\ IsLowSurrogate(units[2])
    THEN <<65536 + (units[1] - 55296) * 1024 + (units[2] - 56320)>>
         \o Scalars(SubSeq(units, 3, Len(units)))
    ELSE IF IsHighSurrogate(units[1]) \/ IsLowSurrogate(units[1])
    THEN <<65533>> \o Scalars(Tail(units))
    ELSE <<units[1]>> \o Scalars(Tail(units))

\* the UTF-8 bytes of a scalar value
Utf8(cp) ==
    IF cp < 128 THEN <<cp>>
    ELSE IF cp < 2048 THEN <<192 + (cp \div 64), 128 + (cp % 64)>>
    ELSE IF cp < 65536
    THEN <<224 + (cp \div 4096), 128 + ((cp \div 64) % 64), 128 + (cp % 64)>>
    ELSE <<240 + (cp \div 262144), 128 + ((cp \div 4096) % 64),
           128 + ((cp \div 64) % 64), 128 + (cp % 64)>>

RECURSIVE Utf8All(_)
Utf8All(cps) == IF cps = <<>> THEN <<>> ELSE Utf8(cps[1]) \o Utf8All(Tail(cps))

\* an encode that begins its output with the byte order mark ef bb bf
Encode_WithBom(encoder, units) == <<239, 187, 191>> \o Utf8All(Scalars(units))

\* an encode that gives the two bytes of every UTF-16 code unit instead of
\* UTF-8
Encode_Utf16(encoder, units) ==
    [i \in 1..(2 * Len(units)) |->
        IF i % 2 = 1 THEN units[(i + 1) \div 2] \div 256 ELSE units[i \div 2] % 256]

\* the encode of an encoder that takes the text in lower case
Encode_CaseFolded(encoder, units) ==
    Utf8All(Scalars([i \in 1..Len(units) |->
                        IF units[i] >= 65 /\ units[i] <= 90 THEN units[i] + 32
                        ELSE units[i]]))

\* the encode of an encoder that keeps a trailing high surrogate of the text
\* it was given last and reads it ahead of the next text, as a streaming
\* encoder does with its chunks
Encode_Streaming(encoder, units) ==
    LET mine == SelectSeq(encodes, LAMBDA c : c.encoder = encoder)
        fed == IF mine = <<>> THEN <<>> ELSE mine[Len(mine)].text
        pending == encoder # JSTextEncoder(0) /\ fed # <<>>
                   /\ fed[Len(fed)] >= 55296 /\ fed[Len(fed)] <= 56319
    IN  Utf8All(Scalars((IF pending THEN <<fed[Len(fed)]>> ELSE <<>>) \o units))

\* TextEncoder.prototype.encode(text): the same bytes from every encoder
Encode(encoder, units) == Utf8All(Scalars(units))

\* byte.toString(16) without the padding
HexPair_Unpadded(byte) == IF byte = 0 THEN <<48>> ELSE NatDigits(byte, 16)

\* byte.toString(16).padStart(2, "0")
HexPair(byte) ==
    LET hex == IF byte = 0 THEN <<48>> ELSE NatDigits(byte, 16)
    IN  IF Len(hex) < 2 THEN <<48>> \o hex ELSE hex

\* the hex pairs joined last byte first
RECURSIVE HexJoin_LittleEndian(_)
HexJoin_LittleEndian(bytes) ==
    IF bytes = <<>> THEN <<>>
    ELSE HexJoin_LittleEndian(Tail(bytes)) \o HexPair(bytes[1])

\* Array.from(encoded).map(...).join("")
RECURSIVE HexJoin(_)
HexJoin(bytes) ==
    IF bytes = <<>> THEN <<>> ELSE HexPair(bytes[1]) \o HexJoin(Tail(bytes))

\* the value of a hexadecimal digit's code unit
HexDigitValue(u) == IF u >= 97 THEN u - 87 ELSE u - 48

\* BigInt("0x" + hex): the digit k places from the end weighs 16^k, so limb j
\* holds the digits 2j - 2 and 2j - 1 places from the end
ParseHex(hex) ==
    LET n == Len(hex)
        digit(k) == IF k < n THEN HexDigitValue(hex[n - k]) ELSE 0
    IN  Trim([j \in 1..((n + 1) \div 2) |-> digit(2 * j - 2) + 16 * digit(2 * j - 1)])

\* new TextEncoder()
NewTextEncoder == JSTextEncoder(0)

\* stringToBigInt without the early return for the empty text
stringToBigInt_NoShortCircuit(seed, encoder) ==
    IF TypeOf(seed) # "string"
    THEN [out |-> ThrowExpected(<<115, 116, 114, 105, 110, 103>>, seed),
          objs |-> {}, encoded |-> <<>>]
    ELSE LET textEncoder == IF encoder.kind \in {"null", "undefined"}
                            THEN NewTextEncoder ELSE encoder
             made == Constructor(JSBigInt(FALSE,
                         ParseHex(HexJoin(Encode(textEncoder, seed.units)))))
         IN  [out |-> made.out, objs |-> made.objs,
              encoded |-> <<[encoder |-> textEncoder, text |-> seed.units]>>]

\* stringToBigInt with the hex digits kept in a buffer that outlives the call:
\* the bytes of the text encoded last come ahead of those of this one
stringToBigInt_SharedBuffer(seed, encoder) ==
    IF TypeOf(seed) # "string"
    THEN [out |-> ThrowExpected(<<115, 116, 114, 105, 110, 103>>, seed),
          objs |-> {}, encoded |-> <<>>]
    ELSE IF Len(seed.units) = 0
    THEN LET made == Constructor(JSBigInt(FALSE, <<>>))
         IN  [out |-> made.out, objs |-> made.objs, encoded |-> <<>>]
    ELSE LET textEncoder == IF encoder.kind \in {"null", "undefined"}
                            THEN NewTextEncoder ELSE encoder
             earlier == IF encodes = <<>> THEN <<>>
                        ELSE HexJoin(Encode(textEncoder, encodes[Len(encodes)].text))
             hex == earlier \o HexJoin(Encode(textEncoder, seed.units))
             made == Constructor(JSBigInt(FALSE, ParseHex(hex)))
         IN  [out |-> made.out, objs |-> made.objs,
              encoded |-> <<[encoder |-> textEncoder, text |-> seed.units]>>]

\* stringToBigInt(seed, encoder): the outcome, the instances created and the
\* calls of encode it made
stringToBigInt(seed, encoder) ==
    IF TypeOf(seed) # "string"
    THEN [out |-> ThrowExpected(<<115, 116, 114, 105, 110, 103>>, seed),
          objs |-> {}, encoded |-> <<>>]
    ELSE IF Len(seed.units) = 0
    THEN LET made == Constructor(JSBigInt(FALSE, <<>>))
         IN  [out |-> made.out, objs |-> made.objs, encoded |-> <<>>]
    ELSE LET textEncoder == IF encoder.kind \in {"null", "undefined"}
                            THEN NewTextEncoder ELSE encoder
             encoded == Encode(textEncoder, seed.units)
             hex == HexJoin(encoded)
             made == Constructor(JSBigInt(FALSE, ParseHex(hex)))
         IN  [out |-> made.out, objs |-> made.objs,
              encoded |-> <<[encoder |-> textEncoder, text |-> seed.units]>>]


---------------------------------------------------------------------------
(* The arguments the model hands to the program *)

\* the limbs at which wrapping, sign and rounding change, the high limb of a
\* surrogate code unit (0xD8), and a mixed pattern
EdgeLimbs == {1, 16, 127, 128, 165, 216, 255}

FillLimbs == {0, 90, 255}

\* the magnitudes of at most n limbs made of a run of one fill limb, an edge
\* limb and a run of another fill limb: 2^k, 2^k - 1, 2^j * (2^k - 1), ...
MagnitudesUpTo(n) ==
    {<<>>} \cup
    UNION { { Trim(Fill(p, a) \o <<e>> \o Fill(q, b)) :
                q \in 0..(n - 1 - p), a \in FillLimbs, e \in EdgeLimbs, b \in FillLimbs }
            : p \in 0..(n - 1) }

BigInts(n) == { JSBigInt(s, m) : s \in BOOLEAN, m \in MagnitudesUpTo(n) }

\* what is not a bigint: the numbers 42 and 0, the string "42", null,
\* undefined, a boolean, and the objects {}, [] and Object.create(null)
NonBigInts ==
    { JSNumber(FALSE, <<42>>), JSNumber(FALSE, <<>>), JSString(<<52, 50>>),
      JSNull, JSUndefined, JSBoolean(TRUE), JSObject, JSArray, JSBareObject }

\* the magnitudes around the largest safe integer of a host number:
\* 2^53 - 1, 2^53, 2^53 + 1, 2^64 + 2^53 - 1 and 2^64 - (2^53 - 1)
SafeEdges ==
    LET maxSafe == Fill(6, 255) \o <<31>>
    IN  { maxSafe, PowerOfTwo(53), AddMag(PowerOfTwo(53), <<1>>),
          AddMag(PowerOfTwo(64), maxSafe), SubMag(PowerOfTwo(64), maxSafe) }

ConstructorArgs ==
    BigInts(MaxLimbs) \cup { JSBigInt(s, m) : s \in BOOLEAN, m \in SafeEdges }
    \cup NonBigInts

SmallConstructorArgs == BigInts(SmallLimbs) \cup NonBigInts

\* the values whose method calls are compared with earlier calls:
\* 0, 1, -1, 255, -128, 2^31, -(2^64 - 1)
PinnedConstructorArgs ==
    { JSBigInt(FALSE, <<>>), JSBigInt(FALSE, <<1>>), JSBigInt(TRUE, <<1>>),
      JSBigInt(FALSE, <<255>>), JSBigInt(TRUE, <<128>>),
      JSBigInt(FALSE, <<0, 0, 0, 128>>), JSBigInt(TRUE, Fill(8, 255)) }

\* the code units of seed texts: NUL, a line feed, A, B, a, e acute, a CJK
\* ideograph, the two surrogates of the rocket emoji
SeedUnits == {0, 10, 65, 66, 97, 233, 20320, 55357, 56960}

RECURSIVE TextsUpTo(_)
TextsUpTo(n) ==
    IF n = 0 THEN {<<>>}
    ELSE LET shorter == TextsUpTo(n - 1)
         IN  shorter \cup { Append(t, u) : t \in shorter, u \in SeedUnits }

\* texts, "hello", and what is not a string: null, undefined, a number, a bigint, the
\* objects {}, [] and Object.create(null)
SeedArgs ==
    { JSString(t) : t \in TextsUpTo(MaxSeedLen) }
    \cup { JSString(<<104, 101, 108, 108, 111>>) }
    \cup { JSNull, JSUndefined, JSNumber(FALSE, <<123>>), JSBigInt(TRUE, <<5>>),
           JSObject, JSArray, JSBareObject }

\* longer seed texts: 'hello', 'item-123', 'Hello ' and the globe emoji
\* U+1F30D, U+FFFF twice, and the last code point U+10FFFF
LongSeedTexts ==
    { <<104, 101, 108, 108, 111>>,
      <<105, 116, 101, 109, 45, 49, 50, 51>>,
      <<72, 101, 108, 108, 111, 32, 55356, 57101>>,
      <<65535, 65535>>,
      <<56319, 57343>> }

\* the seeds whose low bytes are read: the short texts and the longer ones
ByteSeedArgs ==
    { JSString(t) : t \in TextsUpTo(MaxSeedLen) \cup LongSeedTexts }

\* no encoder, or a TextEncoder of the caller's
EncoderArgs == { JSUndefined, JSTextEncoder(1) }

\* no encoder, or one of two TextEncoders the caller uses again and again
SharedEncoderArgs == { JSUndefined, JSTextEncoder(1), JSTextEncoder(2) }

\* the seeds of repeated calls: the empty text, 'A', a high surrogate alone,
\* a low surrogate alone, and the number 123
RepeatedSeedArgs ==
    { JSString(<<>>), JSString(<<65>>), JSString(<<55357>>), JSString(<<56960>>),
      JSNumber(FALSE, <<123>>) }

PrefixArgs == { JSUndefined, JSBoolean(TRUE), JSBoolean(FALSE) }

\* no radix, the radices at and around the ends of 2..36, and 10 and 16
RadixArgs ==
    { JSUndefined } \cup { JSNumber(FALSE, MagOfNat(r)) : r \in {0, 1, 2, 10, 16, 36, 37} }

\* no radix, and every radix of 0..37
AllRadixArgs ==
    { JSUndefined } \cup { JSNumber(FALSE, MagOfNat(r)) : r \in 0..37 }

\* the instances an instance is compared with: of the same value, of the
\* opposite value, of 0, of the value one or 2^64 further from 0
OtherArgs(self) ==
    { JSInstance(self.value), JSInstance(Negate(self.value)),
      JSInstance(JSBigInt(FALSE, <<>>)),
      JSInstance(JSBigInt(self.value.neg, AddMag(self.value.mag, <<1>>))),
      JSInstance(JSBigInt(self.value.neg, AddMag(self.value.mag, PowerOfTwo(64)))) }

---------------------------------------------------------------------------
(* The state machine: one entry call, then method calls on the instance *)

NoCall == [call |-> "none", args |-> <<>>, out |-> Return(JSUndefined)]

Init ==
    /\ heap = {}
    /\ given = NoCall
    /\ last = NoCall
    /\ pinned = NoCall
    /\ encodes = <<>>

\* new BigIntCoercion(x)
Construct(x) ==
    /\ last.call = "none"
    /\ LET made == Constructor(x)
           call == [call |-> "new", args |-> <<x>>, out |-> made.out]
       IN  /\ heap' = made.objs
           /\ given' = call
           /\ last' = call
    /\ UNCHANGED <<pinned, encodes>>

\* stringToBigInt(seed, encoder)
StringToBigInt(seed, encoder) ==
    /\ last.call = "none"
    /\ LET made == stringToBigInt(seed, encoder)
           call == [call |-> "stringToBigInt", args |-> <<seed, encoder>>,
                    out |-> made.out]
       IN  /\ heap' = made.objs
           /\ given' = call
           /\ last' = call
           /\ encodes' = encodes \o made.encoded
    /\ UNCHANGED pinned

\* stringToBigInt(seed, encoder) once more: the caller holds the instances of
\* the earlier calls too
StringToBigIntAgain(seed, encoder) ==
    /\ Len(encodes) < MaxCalls
    /\ LET made == stringToBigInt(seed, encoder)
           call == [call |-> "stringToBigInt", args |-> <<seed, encoder>>,
                    out |-> made.out]
       IN  /\ heap' = heap \cup made.objs
           /\ given' = call
           /\ last' = call
           /\ encodes' = encodes \o made.encoded
    /\ UNCHANGED pinned

\* the caller keeps the outcome of the stringToBigInt call just made, to
\* compare later calls with it
PinSeed ==
    /\ pinned.call = "none"
    /\ last.call = "stringToBigInt"
    /\ pinned' = last
    /\ UNCHANGED <<heap, given, last, encodes>>

\* the caller keeps the outcome of the call just made, to compare later calls
\* with it
Pin ==
    /\ pinned.call = "none"
    /\ last.call \notin {"none", "new", "stringToBigInt"}
    /\ pinned' = last
    /\ UNCHANGED <<heap, given, last, encodes>>

\* a method call on the instance: no method assigns a field
Call(name, args, out) ==
    /\ last' = [call |-> name, args |-> args, out |-> out]
    /\ UNCHANGED <<heap, given, pinned, encodes>>

Equals == \E self \in heap : \E other \in OtherArgs(self) :
    Call("equals", <<other>>, equals(self, other))

ToBigInt == \E self \in heap : Call("toBigInt", <<>>, toBigInt(self))

ToInt8 == \E self \in heap : Call("toInt8", <<>>, toInt8(self))

ToUint8 == \E self \in heap : Call("toUint8", <<>>, toUint8(self))

ToInt16 == \E self \in heap : Call("toInt16", <<>>, toInt16(self))

ToUint16 == \E self \in heap : Call("toUint16", <<>>, toUint16(self))

ToInt32 == \E self \in heap : Call("toInt32", <<>>, toInt32(self))

ToUint32 == \E self \in heap : Call("toUint32", <<>>, toUint32(self))

\* toAbsInt32 storing the magnitude in the instance
ToAbsInt32_Assigning == \E self \in heap :
    /\ last' = [call |-> "toAbsInt32", args |-> <<>>, out |-> toAbsInt32(self)]
    /\ heap' = {[value |-> JSBigInt(FALSE, self.value.mag)]}
    /\ UNCHANGED <<given, pinned, encodes>>

ToAbsInt32 == \E self \in heap : Call("toAbsInt32", <<>>, toAbsInt32(self))

ToInt64 == \E self \in heap : Call("toInt64", <<>>, toInt64(self))

ToUint64 == \E self \in heap : Call("toUint64", <<>>, toUint64(self))

ToBigInt64 == \E self \in heap : Call("toBigInt64", <<>>, toBigInt64(self))

ToBigUint64 == \E self \in heap : Call("toBigUint64", <<>>, toBigUint64(self))

ToChar == \E self \in heap : Call("toChar", <<>>, toChar(self))

ToCodePoint == \E self \in heap : Call("toCodePoint", <<>>, toCodePoint(self))

ToNumber == \E self \in heap : Call("toNumber", <<>>, toNumber(self))

ToHex == \E self \in heap : \E prefix \in PrefixArgs :
    Call("toHex", <<prefix>>, toHex(self, prefix))

ToBinary == \E self \in heap : \E prefix \in PrefixArgs :
    Call("toBinary", <<prefix>>, toBinary(self, prefix))

ToOctal == \E self \in heap : \E prefix \in PrefixArgs :
    Call("toOctal", <<prefix>>, toOctal(self, prefix))

ToString == \E self \in heap : \E radix \in RadixArgs :
    Call("toString", <<radix>>, toString(self, radix))

\* toString with any radix of 0..37
ToStringAnyRadix == \E self \in heap : \E radix \in AllRadixArgs :
    Call("toString", <<radix>>, toString(self, radix))

IsZero == \E self \in heap : Call("isZero", <<>>, isZero(self))

IsPositive == \E self \in heap : Call("isPositive", <<>>, isPositive(self))

IsNegative == \E self \in heap : Call("isNegative", <<>>, isNegative(self))

IsEven == \E self \in heap : Call("isEven", <<>>, isEven(self))

IsOdd == \E self \in heap : Call("isOdd", <<>>, isOdd(self))

\* the method calls
Methods ==
    \/ Equals
    \/ ToBigInt
    \/ ToInt8
    \/ ToUint8
    \/ ToInt16
    \/ ToUint16
    \/ ToInt32
    \/ ToUint32
    \/ ToAbsInt32
    \/ ToInt64
    \/ ToUint64
    \/ ToBigInt64
    \/ ToBigUint64
    \/ ToChar
    \/ ToCodePoint
    \/ ToNumber
    \/ ToHex
    \/ ToBinary
    \/ ToOctal
    \/ ToString
    \/ IsZero
    \/ IsPositive
    \/ IsNegative
    \/ IsEven
    \/ IsOdd

\* every entry call and every method
Next ==
    \/ \E x \in SmallConstructorArgs : Construct(x)
    \/ \E seed \in SeedArgs : \E encoder \in EncoderArgs : StringToBigInt(seed, encoder)
    \/ Methods

Spec == Init /\ [][Next]_vars

\* construction, the conversions to numbers and characters, the predicates
\* and equals, on long values
NextWrap ==
    \/ \E x \in ConstructorArgs : Construct(x)
    \/ Equals
    \/ IsZero
    \/ IsPositive
    \/ IsNegative
    \/ IsEven
    \/ IsOdd
    \/ ToBigInt
    \/ ToInt8
    \/ ToUint8
    \/ ToInt16
    \/ ToUint16
    \/ ToInt32
    \/ ToUint32
    \/ ToAbsInt32
    \/ ToInt64
    \/ ToUint64
    \/ ToBigInt64
    \/ ToBigUint64
    \/ ToChar
    \/ ToCodePoint
    \/ ToNumber

SpecWrap == Init /\ [][NextWrap]_vars

\* construction and the textual renderings, in every radix
NextText ==
    \/ \E x \in SmallConstructorArgs : Construct(x)
    \/ ToHex
    \/ ToBinary
    \/ ToOctal
    \/ ToStringAnyRadix

SpecText == Init /\ [][NextText]_vars

\* every method, any number of times, the caller keeping one outcome
NextCalls ==
    \/ \E x \in PinnedConstructorArgs : Construct(x)
    \/ Methods
    \/ Pin

SpecCalls == Init /\ [][NextCalls]_vars

\* stringToBigInt and then the conversions that read the low bytes of the seed
NextSeedBytes ==
    \/ \E seed \in ByteSeedArgs : \E encoder \in EncoderArgs :
           StringToBigInt(seed, encoder)
    \/ ToBigInt
    \/ ToUint8
    \/ ToUint16
    \/ ToUint32
    \/ ToInt32
    \/ ToUint64
    \/ ToBigUint64

SpecSeedBytes == Init /\ [][NextSeedBytes]_vars

\* stringToBigInt called again and again, with encoders used again
NextSeeds ==
    \/ \E seed \in RepeatedSeedArgs : \E encoder \in SharedEncoderArgs :
           StringToBigIntAgain(seed, encoder)
    \/ PinSeed

SpecSeeds == Init /\ [][NextSeeds]_vars

---------------------------------------------------------------------------
(* Integer arithmetic in which the properties are stated *)

\* the integer of a bigint or of a number, as sign and magnitude
IntOf(x) == [neg |-> x.neg /\ x.mag # <<>>, mag |-> x.mag]

\* x + y
IntAdd(x, y) ==
    IF x.neg = y.neg THEN [neg |-> x.neg, mag |-> AddMag(x.mag, y.mag)]
    ELSE IF CmpMag(x.mag, y.mag) = 0 THEN [neg |-> FALSE, mag |-> <<>>]
    ELSE IF CmpMag(x.mag, y.mag) > 0 THEN [neg |-> x.neg, mag |-> SubMag(x.mag, y.mag)]
    ELSE [neg |-> y.neg, mag |-> SubMag(y.mag, x.mag)]

IntNeg(x) == [neg |-> ~x.neg /\ x.mag # <<>>, mag |-> x.mag]

IntSub(x, y) == IntAdd(x, IntNeg(y))

\* x <= y
IntLeq(x, y) ==
    LET d == IntSub(y, x) IN ~d.neg

IntPow2(k) == [neg |-> FALSE, mag |-> PowerOfTwo(k)]

IntAbs(x) == [neg |-> FALSE, mag |-> x.mag]

\* 2^bits divides x - y
Congruent(x, y, bits) ==
    LET d == IntSub(x, y) IN \A i \in 0..(bits - 1) : BitOf(d.mag, i) = 0

IntZero == [neg |-> FALSE, mag |-> <<>>]

\* 0 <= x < 2^bits
InUnsignedRange(x, bits) == IntLeq(IntZero, x) /\ ~IntLeq(IntPow2(bits), x)

\* -2^(bits-1) <= x < 2^(bits-1)
InSignedRange(x, bits) ==
    IntLeq(IntNeg(IntPow2(bits - 1)), x) /\ ~IntLeq(IntPow2(bits - 1), x)

\* the bigint of an integer
BigIntOf(x) == JSBigInt(x.neg, x.mag)

MinusOne == JSBigInt(TRUE, <<1>>)

UnsignedWidth == [toUint8 |-> 8, toUint16 |-> 16, toUint32 |-> 32, toBigUint64 |-> 64]

SignedWidth == [toInt8 |-> 8, toInt16 |-> 16, toInt32 |-> 32, toBigInt64 |-> 64]

\* the signed conversion of the width of an unsigned one, and the reverse
Counterpart ==
    [toUint8 |-> "toInt8", toUint16 |-> "toInt16", toUint32 |-> "toInt32",
     toBigUint64 |-> "toBigInt64", toInt8 |-> "toUint8", toInt16 |-> "toUint16",
     toInt32 |-> "toUint32", toBigInt64 |-> "toBigUint64"]

WidthOf(name) ==
    IF name \in DOMAIN UnsignedWidth THEN UnsignedWidth[name] ELSE SignedWidth[name]

\* the outcome of the fixed-width conversion called name on an instance
Conversion(name, self) ==
    CASE name = "toInt8" -> toInt8(self)
      [] name = "toUint8" -> toUint8(self)
      [] name = "toInt16" -> toInt16(self)
      [] name = "toUint16" -> toUint16(self)
      [] name = "toInt32" -> toInt32(self)
      [] name = "toUint32" -> toUint32(self)
      [] name = "toBigInt64" -> toBigInt64(self)
      [] name = "toBigUint64" -> toBigUint64(self)

\* the kind of value a conversion returns
ReturnKind(name) == IF name \in {"toBigInt64", "toBigUint64"} THEN "bigint" ELSE "number"

---------------------------------------------------------------------------
(* The properties *)

\* C1: an unsigned conversion of width N (toUint8, toUint16, toUint32,
\* toBigUint64) returns the integer of [0, 2^N - 1] congruent to the value
\* modulo 2^N; -1 gives 2^N - 1, that is 255 at width 8 and 2^64 - 1 at width 64.
C1_UnsignedIsResidue ==
    \A self \in heap :
        last.call \in DOMAIN UnsignedWidth =>
            LET n == UnsignedWidth[last.call]
                r == last.out.val
            IN  /\ last.out.tag = "return"
                /\ r.kind = ReturnKind(last.call)
                /\ InUnsignedRange(IntOf(r), n)
                /\ Congruent(IntOf(self.value), IntOf(r), n)
                /\ self.value = MinusOne => r.mag = Fill(n \div 8, 255)

\* toBigUint64 of -1 has returned 2^64 - 1
C1_Witness ==
    /\ heap = {[value |-> MinusOne]}
    /\ last.call = "toBigUint64"
    /\ last.out = Return(JSBigInt(FALSE, Fill(8, 255)))

\* C2: a signed conversion of width N (toInt8, toInt16, toInt32, toBigInt64)
\* returns the integer of [-2^(N-1), 2^(N-1) - 1] congruent to the value modulo
\* 2^N: the residue below 2^(N-1), the residue minus 2^N otherwise;
\* toBigInt64(2^63) = -2^63.
C2_SignedIsTwosComplement ==
    \A self \in heap :
        last.call \in DOMAIN SignedWidth =>
            LET n == SignedWidth[last.call]
                r == IntOf(last.out.val)
                residue == IF r.neg THEN IntAdd(r, IntPow2(n)) ELSE r
            IN  /\ last.out.tag = "return"
                /\ last.out.val.kind = ReturnKind(last.call)
                /\ InSignedRange(r, n)
                /\ InUnsignedRange(residue, n)
                /\ Congruent(IntOf(self.value), residue, n)
                /\ (r = residue) = ~IntLeq(IntPow2(n - 1), residue)
                /\ (self.value = BigIntOf(IntPow2(63)) /\ n = 64)
                       => r = IntNeg(IntPow2(63))

\* toBigInt64 of 2^63 has returned -2^63
C2_Witness ==
    /\ heap = {[value |-> JSBigInt(FALSE, PowerOfTwo(63))]}
    /\ last.call = "toBigInt64"
    /\ last.out = Return(JSBigInt(TRUE, PowerOfTwo(63)))

\* C3: a conversion of width N, signed or unsigned, returns for the value
\* plus 2^N and for the value minus 2^N what it returns for the value.
C3_Periodic ==
    \A self \in heap :
        last.call \in (DOMAIN UnsignedWidth \cup DOMAIN SignedWidth) =>
            LET n == WidthOf(last.call)
                v == IntOf(self.value)
                above == [value |-> BigIntOf(IntAdd(v, IntPow2(n)))]
                below == [value |-> BigIntOf(IntSub(v, IntPow2(n)))]
            IN  /\ Conversion(last.call, above) = last.out
                /\ Conversion(last.call, below) = last.out

\* toUint32 of 2^32 - 1 has returned 2^32 - 1, which toUint32 also returns
\* for 2^33 - 1 and for -1
C3_Witness ==
    /\ heap = {[value |-> JSBigInt(FALSE, Fill(4, 255))]}
    /\ last.call = "toUint32"
    /\ last.out = Return(JSNumber(FALSE, Fill(4, 255)))
    /\ toUint32([value |-> MinusOne]) = last.out

\* C4: the unsigned conversion of width N returns the signed conversion's
\* result reduced modulo 2^N into [0, 2^N - 1], at the widths 8, 16, 32 and,
\* for toBigInt64 and toBigUint64, 64.
C4_SignedUnsignedConsistent ==
    \A self \in heap :
        last.call \in (DOMAIN UnsignedWidth \cup DOMAIN SignedWidth) =>
            LET n == WidthOf(last.call)
                other == Conversion(Counterpart[last.call], self)
                unsigned == IntOf(IF last.call \in DOMAIN UnsignedWidth
                                  THEN last.out.val ELSE other.val)
                signed == IntOf(IF last.call \in DOMAIN SignedWidth
                                THEN last.out.val ELSE other.val)
            IN  unsigned = (IF signed.neg THEN IntAdd(signed, IntPow2(n)) ELSE signed)

\* toInt16 of 2^15 has returned -2^15, where toUint16 returns 2^15
C4_Witness ==
    /\ heap = {[value |-> JSBigInt(FALSE, <<0, 128>>)]}
    /\ last.call = "toInt16"
    /\ last.out = Return(JSNumber(TRUE, <<0, 128>>))
    /\ toUint16([value |-> JSBigInt(FALSE, <<0, 128>>)]) = Return(JSNumber(FALSE, <<0, 128>>))

\* C5: toAbsInt32 returns the integer of [0, 2^31 - 1] congruent to the
\* magnitude of the value modulo 2^31; 2147483648 and -2147483648 give 0,
\* 4294967295 gives 2147483647.
C5_AbsInt32IsMagnitudeMod ==
    \A self \in heap :
        last.call = "toAbsInt32" =>
            LET r == last.out.val
                v == IntOf(self.value)
            IN  /\ last.out.tag = "return"
                /\ r.kind = "number"
                /\ InUnsignedRange(IntOf(r), 31)
                /\ Congruent(IntAbs(v), IntOf(r), 31)
                /\ v.mag = PowerOfTwo(31) => r.mag = <<>>
                /\ v = [neg |-> FALSE, mag |-> Fill(4, 255)] => r.mag = <<255, 255, 255, 127>>

\* toAbsInt32 of -2147483648 has returned 0
C5_Witness ==
    /\ heap = {[value |-> JSBigInt(TRUE, PowerOfTwo(31))]}
    /\ last.call = "toAbsInt32"
    /\ last.out = Return(JSNumber(FALSE, <<>>))

\* C6: toAbsInt32 returns for the opposite of the value what it returns for
\* the value.
C6_SignErased ==
    \A self \in heap :
        last.call = "toAbsInt32" =>
            toAbsInt32([value |-> BigIntOf(IntNeg(IntOf(self.value)))]) = last.out

\* toAbsInt32 of -(2^32 - 1) has returned 2^31 - 1, as it does for 2^32 - 1
C6_Witness ==
    /\ heap = {[value |-> JSBigInt(TRUE, Fill(4, 255))]}
    /\ last.call = "toAbsInt32"
    /\ last.out = Return(JSNumber(FALSE, <<255, 255, 255, 127>>))
    /\ toAbsInt32([value |-> JSBigInt(FALSE, Fill(4, 255))]) = last.out

\* C7 as stated: toAbsInt32 returns the magnitude of the value clamped to
\* [0, 2147483647], that is 2147483647 for every magnitude above it.
C7_AbsInt32Clamps ==
    \A self \in heap :
        last.call = "toAbsInt32" =>
            LET v == IntAbs(IntOf(self.value))
                max == [neg |-> FALSE, mag |-> <<255, 255, 255, 127>>]
            IN  IntOf(last.out.val) = (IF IntLeq(v, max) THEN v ELSE max)

\* C7 as amended: toAbsInt32 returns the magnitude of the value when it is at
\* most 2147483647, and otherwise the magnitude less the multiple of 2^31 in
\* it (wrapped, not clamped); the result is in [0, 2147483647].
C7_AbsInt32Wraps ==
    \A self \in heap :
        last.call = "toAbsInt32" =>
            LET v == IntAbs(IntOf(self.value))
                r == IntOf(last.out.val)
                max == [neg |-> FALSE, mag |-> <<255, 255, 255, 127>>]
                multiple == [neg |-> FALSE, mag |-> ShiftLeft(ShiftRight(v.mag, 31), 31)]
            IN  /\ IntLeq(IntZero, r) /\ IntLeq(r, max)
                /\ IntLeq(v, max) => r = v
                /\ IntAdd(multiple, r) = v

\* toAbsInt32 of 2^31, above 2147483647, has returned 0
C7_Witness ==
    /\ heap = {[value |-> JSBigInt(FALSE, PowerOfTwo(31))]}
    /\ last.call = "toAbsInt32"
    /\ last.out = Return(JSNumber(FALSE, <<>>))

\* C8: new BigIntCoercion(x) throws the TypeError and creates no instance when
\* x is not a bigint (a number, a string, null, undefined); for a bigint of any
\* magnitude and sign it creates the instance, and toBigInt() returns x.
C8_ConstructionChecksKind ==
    given.call = "new" =>
        LET x == given.args[1]
        IN  /\ x.kind # "bigint" =>
                   /\ given.out.tag = "throw"
                   /\ given.out.err = "TypeError"
                   /\ heap = {}
            /\ x.kind = "bigint" =>
                   /\ given.out.tag = "return"
                   /\ heap = {[value |-> x]}
                   /\ last.call = "toBigInt" => last.out = Return(x)

\* the construction from the number 42 has thrown and no instance exists
C8_Witness ==
    /\ given.call = "new"
    /\ given.args = <<JSNumber(FALSE, <<42>>)>>
    /\ last.out.tag = "throw"
    /\ last.out.err = "TypeError"
    /\ heap = {}

\* C9: whatever methods were called on an instance, its value is the one given
\* at construction and toBigInt() returns it, and a call returns what the same
\* call with the same arguments returned earlier.
C9_Immutable ==
    \A self \in heap :
        /\ self.value = given.args[1]
        /\ last.call = "toBigInt" => last.out = Return(given.args[1])
        /\ (pinned.call = last.call /\ pinned.args = last.args) => last.out = pinned.out

\* after toAbsInt32 of -1 returned 1, a later toBigInt() has returned -1
C9_Witness ==
    /\ given.args = <<MinusOne>>
    /\ pinned.call = "toAbsInt32"
    /\ pinned.out = Return(JSNumber(FALSE, <<1>>))
    /\ last.call = "toBigInt"
    /\ last.out = Return(MinusOne)

\* C10 as stated: the only error thrown is the TypeError of the constructor or
\* of stringToBigInt; no method of an instance throws, whatever its argument.
C10_OnlyEntryCallsThrow ==
    last.out.tag = "throw" =>
        (last.call \in {"new", "stringToBigInt"} /\ last.out.err = "TypeError")

\* the radix of a toString call, 10 when omitted
RadixOf(args) == IF args[1].kind = "undefined" THEN 10 ELSE NatOfMag(args[1].mag)

\* C10 as amended: the only errors thrown are the TypeError of the constructor
\* or of stringToBigInt and the RangeError of toString for a radix outside
\* 2..36; toString with a radix in 2..36 or none, and every other method of an
\* instance, returns.
C10_OnlyEntryCallsAndRadixThrow ==
    /\ last.out.tag = "throw" =>
           \/ last.call \in {"new", "stringToBigInt"} /\ last.out.err = "TypeError"
           \/ /\ last.call = "toString"
              /\ last.out.err = "RangeError"
              /\ RadixOf(last.args) \notin 2..36
    /\ (last.call = "toString" /\ RadixOf(last.args) \in 2..36) => last.out.tag = "return"

\* toCodePoint of 2^24 - 1, whose 21-bit residue is above 0x10FFFF, has
\* returned the surrogate pair of U+10FFFF
C10_Witness ==
    /\ heap = {[value |-> JSBigInt(FALSE, <<255, 255, 255>>)]}
    /\ last.call = "toCodePoint"
    /\ last.out = Return(JSString(<<56319, 57343>>))

\* the kind an entry call expects, as code units: "bigint" or "string"
ExpectedKind(call) ==
    IF call = "new" THEN <<98, 105, 103, 105, 110, 116>>
    ELSE <<115, 116, 114, 105, 110, 103>>

\* 'Expected a <kind>, but received <typeof value>. Value: ' and then text
MessageForm(kind, value, text) ==
    <<69, 120, 112, 101, 99, 116, 101, 100, 32, 97, 32>> \o kind
    \o <<44, 32, 98, 117, 116, 32, 114, 101, 99, 101, 105, 118, 101, 100, 32>>
    \o TypeOfUnits(value)
    \o <<46, 32, 86, 97, 108, 117, 101, 58, 32>> \o text

\* the entry call made has rejected its argument
Rejected ==
    /\ given.call \in {"new", "stringToBigInt"}
    /\ TypeOf(given.args[1]) # (IF given.call = "new" THEN "bigint" ELSE "string")

\* C11: for every rejected input, the constructor and stringToBigInt throw a
\* TypeError whose message is 'Expected a <kind>, but received <typeof value>.
\* Value: <String(value)>': the expected kind, the kind received and the
\* rendering of the value.
C11_ErrorReportsKinds ==
    Rejected =>
        /\ given.out.tag = "throw"
        /\ given.out.err = "TypeError"
        /\ \E text \in
                {SubSeq(given.out.msg, k, Len(given.out.msg)) :
                     k \in 1..(Len(given.out.msg) + 1)} :
               /\ given.out.msg = MessageForm(ExpectedKind(given.call), given.args[1], text)
               /\ StringOf(given.args[1]).tag = "return"
                      => text = StringOf(given.args[1]).val.units

\* C11 on the inputs String() renders: every rejected input other than an
\* object without a primitive value gets the message of the stated form.
C11_RenderableReportsKinds ==
    (Rejected /\ given.args[1].kind # "bare") =>
        /\ given.out.tag = "throw"
        /\ given.out.err = "TypeError"
        /\ given.out.msg = MessageForm(ExpectedKind(given.call), given.args[1],
                                       StringOf(given.args[1]).val.units)

\* stringToBigInt(123) has thrown 'Expected a string, but received number.
\* Value: 123'
C11_Witness ==
    /\ given.call = "stringToBigInt"
    /\ given.args[1] = JSNumber(FALSE, <<123>>)
    /\ given.out.err = "TypeError"
    /\ given.out.msg =
           <<69, 120, 112, 101, 99, 116, 101, 100, 32, 97, 32, 115, 116, 114, 105,
             110, 103, 44, 32, 98, 117, 116, 32, 114, 101, 99, 101, 105, 118, 101,
             100, 32, 110, 117, 109, 98, 101, 114, 46, 32, 86, 97, 108, 117, 101,
             58, 32, 49, 50, 51>>

\* the radix of toHex, toBinary and toOctal
RenderRadix == [toHex |-> 16, toBinary |-> 2, toOctal |-> 8]

\* their markers: 0x, 0b, 0o
RenderMarker == [toHex |-> <<48, 120>>, toBinary |-> <<48, 98>>, toOctal |-> <<48, 111>>]

\* the prefix flag of a toHex, toBinary or toOctal call, true when omitted
PrefixOf(args) == IF args[1].kind = "undefined" THEN TRUE ELSE args[1].flag

\* C12: for a negative value, toHex, toBinary and toOctal with the prefix flag
\* true return the minus sign, then the marker (0x, 0b, 0o), then the digits of
\* the magnitude in the radix: -255 renders as '-0xff'.
C12_MinusAheadOfPrefix ==
    \A self \in heap :
        (last.call \in DOMAIN RenderRadix /\ PrefixOf(last.args) /\ self.value.neg) =>
            /\ last.out.tag = "return"
            /\ last.out.val.units =
                   <<45>> \o RenderMarker[last.call]
                   \o Digits(self.value.mag, RenderRadix[last.call])

\* what the methods return instead: the marker, then the minus sign, then the
\* digits of the magnitude ('0x-ff')
C12_MinusAfterPrefix ==
    \A self \in heap :
        (last.call \in DOMAIN RenderRadix /\ PrefixOf(last.args) /\ self.value.neg) =>
            /\ last.out.tag = "return"
            /\ last.out.val.units =
                   RenderMarker[last.call] \o <<45>>
                   \o Digits(self.value.mag, RenderRadix[last.call])

\* toHex(true) of -255 has returned '0x-ff'
C12_Witness ==
    /\ heap = {[value |-> JSBigInt(TRUE, <<255>>)]}
    /\ last.call = "toHex"
    /\ last.args = <<JSBoolean(TRUE)>>
    /\ last.out = Return(JSString(<<48, 120, 45, 102, 102>>))

\* m * r + d for a small r and d, limb by limb with carry
RECURSIVE MulAddLimbs(_, _, _, _)
MulAddLimbs(m, r, i, carry) ==
    IF i > Len(m) THEN MagOfNat(carry)
    ELSE LET p == m[i] * r + carry
         IN  <<p % 256>> \o MulAddLimbs(m, r, i + 1, p \div 256)

MulAdd(m, r, d) == Trim(MulAddLimbs(m, r, 1, d))

\* the value of a digit's code unit (0-9, a-z), 36 for any other code unit
DigitValue(u) ==
    IF u >= 48 /\ u <= 57 THEN u - 48
    ELSE IF u >= 97 /\ u <= 122 THEN u - 87
    ELSE 36

\* the number written by the digits i..j of a text in radix r (below 2^31),
\* a half of the digits at a time
RECURSIVE NatOfDigits(_, _, _, _)
NatOfDigits(units, i, j, r) ==
    IF j < i THEN 0
    ELSE IF i = j THEN DigitValue(units[i])
    ELSE LET mid == (i + j) \div 2
         IN  NatOfDigits(units, i, mid, r) * (r ^ (j - mid))
             + NatOfDigits(units, mid + 1, j, r)

\* the magnitude written by the first n digits of a text in radix r, read a
\* chunk of digits at a time from the end
RECURSIVE ParseDigits(_, _, _)
ParseDigits(units, n, r) ==
    LET width == ChunkWidth(r)
    IN  IF n <= width THEN MagOfNat(NatOfDigits(units, 1, n, r))
        ELSE MulAdd(ParseDigits(units, n - width, r), r ^ width,
                    NatOfDigits(units, n - width + 1, n, r))

\* a text read as an integer in radix r: an optional minus sign, then one or
\* more digits below r; anything else does not parse
ParseInteger(units, r) ==
    LET neg == units # <<>> /\ units[1] = 45
        digits == IF neg THEN Tail(units) ELSE units
    IN  IF digits = <<>> \/ \E i \in 1..Len(digits) : DigitValue(digits[i]) >= r
        THEN [ok |-> FALSE, int |-> IntZero]
        ELSE [ok |-> TRUE,
              int |-> IntOf([neg |-> neg, mag |-> ParseDigits(digits, Len(digits), r)])]

\* a text without the marker it starts with
StripMarker(units, marker) ==
    IF Len(units) >= 2 /\ SubSeq(units, 1, 2) = marker
    THEN SubSeq(units, 3, Len(units))
    ELSE units

\* C13: toString(r), for every radix r of 2..36 and every value, parses in
\* radix r to the value; what toHex, toBinary and toOctal return, with or
\* without prefix, parses in radix 16, 2 and 8 to the value once the marker
\* is stripped, the sign being read.
C13_RadixRoundTrip ==
    \A self \in heap :
        /\ (last.call = "toString" /\ RadixOf(last.args) \in 2..36) =>
               /\ last.out.tag = "return"
               /\ ParseInteger(last.out.val.units, RadixOf(last.args))
                      = [ok |-> TRUE, int |-> IntOf(self.value)]
        /\ last.call \in DOMAIN RenderRadix =>
               /\ last.out.tag = "return"
               /\ (~PrefixOf(last.args) \/
                     SubSeq(last.out.val.units, 1, 2) = RenderMarker[last.call])
               /\ ParseInteger(StripMarker(last.out.val.units, RenderMarker[last.call]),
                               RenderRadix[last.call])
                      = [ok |-> TRUE, int |-> IntOf(self.value)]

\* toString(36) of -(2^24 - 1) has returned '-9zldr', which parses back
C13_Witness ==
    /\ heap = {[value |-> JSBigInt(TRUE, <<255, 255, 255>>)]}
    /\ last.call = "toString"
    /\ last.args = <<JSNumber(FALSE, <<36>>)>>
    /\ last.out = Return(JSString(<<45, 57, 122, 108, 100, 114>>))
    /\ ParseInteger(last.out.val.units, 36).int = IntOf(JSBigInt(TRUE, <<255, 255, 255>>))

\* the outcome of toHex, toBinary or toOctal, by name
Render(name, self, prefix) ==
    CASE name = "toHex" -> toHex(self, prefix)
      [] name = "toBinary" -> toBinary(self, prefix)
      [] name = "toOctal" -> toOctal(self, prefix)

\* C14: toHex(), toBinary() and toOctal() without argument return what they
\* return with prefix = true, which is '0x', '0b' or '0o' followed by what
\* they return with prefix = false; with prefix = false they return
\* toString(16), toString(2) or toString(8); toString() returns toString(10).
C14_PrefixFlag ==
    \A self \in heap :
        /\ last.call \in DOMAIN RenderRadix =>
               LET on == Render(last.call, self, JSBoolean(TRUE))
                   off == Render(last.call, self, JSBoolean(FALSE))
                   text == toString(self, JSNumber(FALSE, <<RenderRadix[last.call]>>))
               IN  /\ last.out.tag = "return"
                   /\ last.args[1].kind = "undefined" => last.out = on
                   /\ PrefixOf(last.args) =>
                          last.out.val.units = RenderMarker[last.call] \o off.val.units
                   /\ ~PrefixOf(last.args) => last.out = text
        /\ (last.call = "toString" /\ last.args[1].kind = "undefined") =>
               last.out = toString(self, JSNumber(FALSE, <<10>>))

\* toBinary() of 255 has returned '0b11111111', and toBinary(false) returns
\* '11111111'
C14_Witness ==
    /\ heap = {[value |-> JSBigInt(FALSE, <<255>>)]}
    /\ last.call = "toBinary"
    /\ last.args = <<JSUndefined>>
    /\ last.out = Return(JSString(<<48, 98>> \o Fill(8, 49)))
    /\ toBinary([value |-> JSBigInt(FALSE, <<255>>)], JSBoolean(FALSE))
           = Return(JSString(Fill(8, 49)))

\* the outcome of a predicate, by name
Predicate(name, self) ==
    CASE name = "isZero" -> isZero(self)
      [] name = "isPositive" -> isPositive(self)
      [] name = "isNegative" -> isNegative(self)
      [] name = "isEven" -> isEven(self)
      [] name = "isOdd" -> isOdd(self)

\* what a predicate answers on the instance: the answer just returned for the
\* predicate called last
Answer(name, self) ==
    IF last.call = name THEN last.out.val.flag ELSE Predicate(name, self).val.flag

\* C15: exactly one of isZero, isPositive and isNegative holds of a value;
\* isEven and isOdd are never both true nor both false, also for a negative
\* odd value; zero is even and neither positive nor negative.
C15_PredicatesPartition ==
    \A self \in heap :
        last.call \in {"isZero", "isPositive", "isNegative", "isEven", "isOdd"} =>
            LET zero == Answer("isZero", self)
                positive == Answer("isPositive", self)
                negative == Answer("isNegative", self)
                even == Answer("isEven", self)
                odd == Answer("isOdd", self)
            IN  /\ last.out.tag = "return" /\ last.out.val.kind = "boolean"
                /\ Cardinality({n \in {"isZero", "isPositive", "isNegative"} :
                                    Answer(n, self)}) = 1
                /\ even # odd
                /\ odd = (BitOf(self.value.mag, 0) = 1)
                /\ zero = (self.value.mag = <<>>)
                /\ negative = self.value.neg
                /\ self.value.mag = <<>> => (even /\ ~positive /\ ~negative)

\* isOdd of -(2^64 - 1) has returned true, where isEven returns false
C15_Witness ==
    /\ heap = {[value |-> JSBigInt(TRUE, Fill(8, 255))]}
    /\ last.call = "isOdd"
    /\ last.out = Return(JSBoolean(TRUE))
    /\ isEven([value |-> JSBigInt(TRUE, Fill(8, 255))]) = Return(JSBoolean(FALSE))

\* C16: a.equals(b) is true exactly when a.toBigInt() and b.toBigInt() are the
\* same integer; so a equals itself, b.equals(a) answers as a.equals(b), and a
\* value other than 0 does not equal its opposite.
C16_EqualsIsIdentity ==
    \A self \in heap :
        last.call = "equals" =>
            LET a == [value |-> self.value]
                b == [value |-> JSBigInt(last.args[1].neg, last.args[1].mag)]
            IN  /\ last.out.tag = "return" /\ last.out.val.kind = "boolean"
                /\ last.out.val.flag = (IntOf(toBigInt(a).val) = IntOf(toBigInt(b).val))
                /\ equals(b, JSInstance(a.value)) = last.out
                /\ equals(a, JSInstance(a.value)) = Return(JSBoolean(TRUE))
                /\ (a.value.mag # <<>> /\ b.value = Negate(a.value))
                       => last.out = Return(JSBoolean(FALSE))

\* 2^63 - 1 compared with 2^63 has answered false, though the two are the
\* same host number
C16_Witness ==
    /\ heap = {[value |-> JSBigInt(FALSE, Fill(7, 255) \o <<127>>)]}
    /\ last.call = "equals"
    /\ last.args = <<JSInstance(JSBigInt(FALSE, PowerOfTwo(63)))>>
    /\ last.out = Return(JSBoolean(FALSE))
    /\ NumberOf(JSBigInt(FALSE, Fill(7, 255) \o <<127>>)) = NumberOf(JSBigInt(FALSE, PowerOfTwo(63)))

\* C17: toChar returns a string of one UTF-16 code unit, the value modulo
\* 2^16, which is the number toUint16 returns, also when it is a surrogate
\* (0xD800..0xDFFF); it does not throw.
C17_CharIsUint16Unit ==
    \A self \in heap :
        last.call = "toChar" =>
            LET r == last.out.val
            IN  /\ last.out.tag = "return"
                /\ r.kind = "string"
                /\ Len(r.units) = 1
                /\ r.units[1] \in 0..65535
                /\ Congruent(IntOf(self.value),
                             [neg |-> FALSE, mag |-> MagOfNat(r.units[1])], 16)
                /\ MagOfNat(r.units[1]) = toUint16(self).val.mag

\* toChar of 0xFFD800 has returned the lone surrogate 0xD800
C17_Witness ==
    /\ heap = {[value |-> JSBigInt(FALSE, <<0, 216, 255>>)]}
    /\ last.call = "toChar"
    /\ last.out = Return(JSString(<<55296>>))

\* the code point a string of one code unit, or of a surrogate pair, renders
CodePointOf(units) ==
    IF Len(units) = 1 THEN units[1]
    ELSE 65536 + (units[1] - 55296) * 1024 + (units[2] - 56320)

\* C18: toCodePoint renders the code point c = value modulo 2^21 when
\* c <= 0x10FFFF and the code point (c AND 0x10FFFF) when c > 0x10FFFF, as one
\* code unit when the rendered code point is below 0x10000 and as two (a
\* surrogate pair) otherwise.
C18_CodePointMasked ==
    \A self \in heap :
        last.call = "toCodePoint" =>
            LET low == NatOfMag(LowBits(self.value.mag, 21))
                c == IF self.value.neg /\ low # 0 THEN 2097152 - low ELSE low
                \* above 0x10FFFF bit 20 is set, and the AND keeps it and the
                \* bits 0..15
                rendered == IF c <= 1114111 THEN c ELSE 1048576 + (c % 65536)
                r == last.out.val
            IN  /\ last.out.tag = "return"
                /\ r.kind = "string"
                /\ Len(r.units) = (IF rendered < 65536 THEN 1 ELSE 2)
                /\ Len(r.units) = 2 =>
                       (IsHighSurrogate(r.units[1]) /\ IsLowSurrogate(r.units[2]))
                /\ CodePointOf(r.units) = rendered

\* toCodePoint of -1, of residue 2^21 - 1 above 0x10FFFF, has returned the
\* surrogate pair of U+10FFFF
C18_Witness ==
    /\ heap = {[value |-> MinusOne]}
    /\ last.call = "toCodePoint"
    /\ last.out = Return(JSString(<<56319, 57343>>))

\* 2^53 - 1, the largest safe integer
MaxSafe == [neg |-> FALSE, mag |-> Fill(6, 255) \o <<31>>]

\* C19: when the 64-bit wrapped value has a magnitude of at most 2^53 - 1,
\* toInt64() is the integer toBigInt64() returns and toUint64() the integer
\* toBigUint64() returns; when the value has a magnitude of at most 2^53 - 1,
\* toNumber() is the value.
C19_ExactInSafeRange ==
    \A self \in heap :
        /\ last.call = "toInt64" =>
               LET exact == IntOf(toBigInt64(self).val)
               IN  /\ last.out.tag = "return" /\ last.out.val.kind = "number"
                   /\ IntLeq(IntAbs(exact), MaxSafe) => IntOf(last.out.val) = exact
        /\ last.call = "toUint64" =>
               LET exact == IntOf(toBigUint64(self).val)
               IN  /\ last.out.tag = "return" /\ last.out.val.kind = "number"
                   /\ IntLeq(IntAbs(exact), MaxSafe) => IntOf(last.out.val) = exact
        /\ last.call = "toNumber" =>
               /\ last.out.tag = "return" /\ last.out.val.kind = "number"
               /\ IntLeq(IntAbs(IntOf(self.value)), MaxSafe)
                      => IntOf(last.out.val) = IntOf(self.value)

\* toInt64 of -(2^64 + 2^53 - 1), which wraps to -(2^53 - 1), has returned
\* -(2^53 - 1)
C19_Witness ==
    /\ heap = {[value |-> JSBigInt(TRUE, AddMag(PowerOfTwo(64), MaxSafe.mag))]}
    /\ last.call = "toInt64"
    /\ last.out = Return(JSNumber(TRUE, MaxSafe.mag))

\* a sequence in the opposite order
Reverse(seq) == [i \in 1..Len(seq) |-> seq[Len(seq) + 1 - i]]

\* the text of a stringToBigInt call that was given a string
SeedText == given.args[1].units

\* C20: stringToBigInt(s) returns an instance of the big-endian integer of the
\* UTF-8 bytes b_0..b_(n-1) of s, the sum of b_i * 256^(n-1-i): the first byte
\* is the most significant and every byte weighs two hex digits. 'A' gives
\* 65, 'AB' 0x4142, 'hello' 448378203247 and the rocket emoji 4036991616.
C20_BigEndianOfUtf8 ==
    (given.call = "stringToBigInt" /\ given.args[1].kind = "string") =>
        LET bytes == Encode(NewTextEncoder, SeedText)
            \* limb j of the sum weighs 256^(j-1): it is byte n-j
            sum == JSBigInt(FALSE, Reverse(bytes))
        IN  /\ given.out = Return(JSInstance(sum))
            /\ heap = {[value |-> sum]}
            /\ last.call = "toBigInt" => last.out = Return(sum)
            /\ SeedText = <<65>> => sum.mag = <<65>>
            /\ SeedText = <<65, 66>> => sum.mag = <<66, 65>>
            /\ SeedText = <<104, 101, 108, 108, 111>>
                   => BigIntToString(sum, JSNumber(FALSE, <<10>>)).val.units
                          = <<52, 52, 56, 51, 55, 56, 50, 48, 51, 50, 52, 55>>
            /\ SeedText = <<55357, 56960>>
                   => BigIntToString(sum, JSNumber(FALSE, <<10>>)).val.units
                          = <<52, 48, 51, 54, 57, 57, 49, 54, 49, 54>>

\* stringToBigInt of 'A' and a line feed, whose second byte 0x0a takes the
\* padding, has returned 0x410a, which toBigInt() returns
C20_Witness ==
    /\ given.call = "stringToBigInt"
    /\ SeedText = <<65, 10>>
    /\ heap = {[value |-> JSBigInt(FALSE, <<10, 65>>)]}
    /\ last.call = "toBigInt"
    /\ last.out = Return(JSBigInt(FALSE, <<10, 65>>))

\* C21: stringToBigInt("") returns at once an instance wrapping 0, equal to
\* BigIntCoercion(0), with an encoder or without one, and encode is called on
\* no encoder, neither on the caller's nor on one of its own.
C21_EmptyTextIsZero ==
    (given.call = "stringToBigInt" /\ given.args[1] = JSString(<<>>)) =>
        LET zero == JSBigInt(FALSE, <<>>)
        IN  /\ given.out = Return(JSInstance(zero))
            /\ heap = {[value |-> zero]}
            /\ encodes = <<>>
            /\ \A self \in heap :
                   equals(self, JSInstance(zero)) = Return(JSBoolean(TRUE))
            /\ last.call = "toBigInt" => last.out = Return(zero)
            /\ (last.call = "equals" /\ last.args[1] = JSInstance(zero))
                   => last.out = Return(JSBoolean(TRUE))

\* stringToBigInt("", encoder) with an encoder of the caller's has returned an
\* instance that equals BigIntCoercion(0), and nothing has been encoded
C21_Witness ==
    /\ given.call = "stringToBigInt"
    /\ given.args = <<JSString(<<>>), JSTextEncoder(1)>>
    /\ encodes = <<>>
    /\ last.call = "equals"
    /\ last.args[1] = JSInstance(JSBigInt(FALSE, <<>>))
    /\ last.out = Return(JSBoolean(TRUE))

\* the message stringToBigInt gives for a seed of a kind other than string:
\* 'Expected a string, but received <typeof seed>. Value: ' and the rest
NamesReceivedKind(msg, seed) ==
    \E k \in 1..(Len(msg) + 1) :
        msg = MessageForm(<<115, 116, 114, 105, 110, 103>>, seed,
                          SubSeq(msg, k, Len(msg)))

\* C22: for every seed that is not a string, stringToBigInt throws the
\* TypeError whose message names the kind received; the check comes first, so
\* encode is called on no encoder and no instance is created, whatever the
\* encoder argument.
C22_NonStringRejectedFirst ==
    (given.call = "stringToBigInt" /\ TypeOf(given.args[1]) # "string") =>
        /\ given.out.tag = "throw"
        /\ given.out.err = "TypeError"
        /\ NamesReceivedKind(given.out.msg, given.args[1])
        /\ encodes = <<>>
        /\ heap = {}

\* C22 on the seeds String() renders: every seed that is not a string, other
\* than an object without a primitive value, is rejected with the message
\* naming its kind, nothing encoded and no instance created; an object without
\* a primitive value is rejected with a TypeError too, the host's.
C22_RenderableRejectedFirst ==
    (given.call = "stringToBigInt" /\ TypeOf(given.args[1]) # "string") =>
        /\ given.out.tag = "throw"
        /\ given.out.err = "TypeError"
        /\ given.args[1].kind # "bare"
               => NamesReceivedKind(given.out.msg, given.args[1])
        /\ encodes = <<>>
        /\ heap = {}

\* stringToBigInt(null, encoder) has thrown 'Expected a string, but received
\* object. Value: null' with nothing encoded and no instance
C22_Witness ==
    /\ given.call = "stringToBigInt"
    /\ given.args = <<JSNull, JSTextEncoder(1)>>
    /\ given.out.err = "TypeError"
    /\ given.out.msg =
           <<69, 120, 112, 101, 99, 116, 101, 100, 32, 97, 32, 115, 116, 114, 105,
             110, 103, 44, 32, 98, 117, 116, 32, 114, 101, 99, 101, 105, 118, 101,
             100, 32, 111, 98, 106, 101, 99, 116, 46, 32, 86, 97, 108, 117, 101,
             58, 32, 110, 117, 108, 108>>
    /\ encodes = <<>>
    /\ heap = {}

\* the caller holds the outcome of an earlier stringToBigInt call of a text
\* and has just called stringToBigInt of the same text
SameTextTwice ==
    /\ pinned.call = "stringToBigInt"
    /\ last.call = "stringToBigInt"
    /\ pinned.args[1].kind = "string"
    /\ pinned.args[1] = last.args[1]

AsciiTexts == { t \in TextsUpTo(MaxSeedLen) : \A i \in 1..Len(t) : t[i] < 128 }

\* stringToBigInt(t).toBigInt() of a text t
SeedValue(t) ==
    LET made == stringToBigInt(JSString(t), JSUndefined)
    IN  toBigInt(CHOOSE self \in made.objs : TRUE)

\* a text without the NUL characters it begins with
RECURSIVE StripNul(_)
StripNul(t) == IF t # <<>> /\ t[1] = 0 THEN StripNul(Tail(t)) ELSE t

\* stringToBigInt(s).toBigInt() has been called for an ASCII text s
AsciiSeedRead ==
    /\ given.call = "stringToBigInt"
    /\ given.args[1].kind = "string"
    /\ SeedText \in AsciiTexts
    /\ last.call = "toBigInt"

\* C25: for any two distinct short ASCII strings s1 and s2, also when they
\* differ in letter case only, stringToBigInt(s1).toBigInt() and
\* stringToBigInt(s2).toBigInt() differ.
C25_DistinctAsciiDiffer ==
    AsciiSeedRead =>
        \A t \in AsciiTexts : t # SeedText => SeedValue(t) # last.out

\* C25 as it holds: two ASCII strings give the same integer exactly when they
\* are equal once the NUL characters they begin with are taken off; so two
\* distinct ASCII strings that do not begin with NUL give different integers,
\* also when they differ in letter case only.
C25_DistinctUpToLeadingNul ==
    AsciiSeedRead =>
        \A t \in AsciiTexts :
            (SeedValue(t) = last.out) <=> (StripNul(t) = StripNul(SeedText))

\* stringToBigInt('A').toBigInt() has returned 65, which is not the 97 of 'a'
\* and is the 65 of NUL followed by 'A'
C25_Witness ==
    /\ given.call = "stringToBigInt"
    /\ SeedText = <<65>>
    /\ last.call = "toBigInt"
    /\ last.out = Return(JSBigInt(FALSE, <<65>>))
    /\ SeedValue(<<97>>) = Return(JSBigInt(FALSE, <<97>>))
    /\ SeedValue(<<0, 65>>) = last.out

\* the UTF-8 bytes of the seed text of the stringToBigInt call made
SeedBytes == Encode(NewTextEncoder, SeedText)

\* the big-endian integer of the last k bytes of a byte sequence, of all of
\* them when there are fewer than k
LowBytes(bytes, k) ==
    Trim(Reverse(SubSeq(bytes, Max(1, Len(bytes) - k + 1), Len(bytes))))

\* stringToBigInt has returned an instance for a text that is not empty
NonEmptySeed ==
    /\ given.call = "stringToBigInt"
    /\ given.args[1].kind = "string"
    /\ SeedText # <<>>

\* C26: for every non-empty text s, stringToBigInt(s).toUint8() is the last
\* UTF-8 byte of s, and the unsigned conversions of 16, 32 and 64 bits
\* (toUint16, toUint32, toUint64 and toBigUint64) are the big-endian integer
\* of the last 2, 4 and 8 bytes, of all the bytes when there are fewer;
\* 'hello' gives toUint8() = 111 and toInt32() = 1701604463.
C26_LowBytes ==
    NonEmptySeed =>
        /\ last.call = "toUint8"
               => last.out = Return(JSNumber(FALSE, <<SeedBytes[Len(SeedBytes)]>>))
        /\ last.call = "toUint16"
               => last.out = Return(JSNumber(FALSE, LowBytes(SeedBytes, 2)))
        /\ last.call = "toUint32"
               => last.out = Return(JSNumber(FALSE, LowBytes(SeedBytes, 4)))
        /\ last.call = "toUint64"
               => last.out = Return(JSNumber(FALSE, LowBytes(SeedBytes, 8)))
        /\ last.call = "toBigUint64"
               => last.out = Return(JSBigInt(FALSE, LowBytes(SeedBytes, 8)))
        /\ (SeedText = <<104, 101, 108, 108, 111>> /\ last.call = "toInt32")
               => last.out = Return(JSNumber(FALSE, MagOfNat(1701604463)))

\* C26 as it holds: toUint8, toUint16, toUint32 and toBigUint64 are the
\* big-endian integer of the last 1, 2, 4 and 8 bytes; toUint64 is the host
\* number nearest to the integer of the last 8 bytes, which is that integer
\* when it is below 2^53.
C26_LowBytesExactOrRounded ==
    NonEmptySeed =>
        /\ last.call = "toUint8"
               => last.out = Return(JSNumber(FALSE, <<SeedBytes[Len(SeedBytes)]>>))
        /\ last.call = "toUint16"
               => last.out = Return(JSNumber(FALSE, LowBytes(SeedBytes, 2)))
        /\ last.call = "toUint32"
               => last.out = Return(JSNumber(FALSE, LowBytes(SeedBytes, 4)))
        /\ last.call = "toUint64"
               => /\ last.out = Return(JSNumber(FALSE, RoundToDouble(LowBytes(SeedBytes, 8))))
                  /\ BitLen(LowBytes(SeedBytes, 8)) <= 53
                         => last.out = Return(JSNumber(FALSE, LowBytes(SeedBytes, 8)))
        /\ last.call = "toBigUint64"
               => last.out = Return(JSBigInt(FALSE, LowBytes(SeedBytes, 8)))
        /\ (SeedText = <<104, 101, 108, 108, 111>> /\ last.call = "toInt32")
               => last.out = Return(JSNumber(FALSE, MagOfNat(1701604463)))

\* stringToBigInt('Hello ' and the globe emoji), of 10 bytes, has given
\* toBigUint64() the integer of its last 8 bytes, 6c 6c 6f 20 f0 9f 8c 8d
C26_Witness ==
    /\ given.call = "stringToBigInt"
    /\ SeedText = <<72, 101, 108, 108, 111, 32, 55356, 57101>>
    /\ Len(SeedBytes) = 10
    /\ last.call = "toBigUint64"
    /\ last.out = Return(JSBigInt(FALSE, <<141, 140, 159, 240, 32, 111, 108, 108>>))

\* C27: for every text seed, stringToBigInt(seed).toUint32() is below
\* 0xFFFFFFFF = 2^32 - 1, so dividing it by 0xffffffff, as the README's
\* seededRandom does, gives a number of [0, 1) and never 1: no UTF-8 byte is
\* 0xFF.
C27_Uint32BelowAllOnes ==
    (given.call = "stringToBigInt" /\ given.args[1].kind = "string") =>
        /\ \A i \in 1..Len(SeedBytes) : SeedBytes[i] < 255
        /\ last.call = "toUint32" =>
               /\ last.out.tag = "return"
               /\ last.out.val.kind = "number"
               /\ ~last.out.val.neg
               /\ CmpMag(last.out.val.mag, Fill(4, 255)) < 0

\* stringToBigInt of U+FFFF twice, the text of the largest code units, has
\* given toUint32() 0xBFEFBFBF, the last 4 of the bytes ef bf bf ef bf bf
C27_Witness ==
    /\ given.call = "stringToBigInt"
    /\ SeedText = <<65535, 65535>>
    /\ last.call = "toUint32"
    /\ last.out = Return(JSNumber(FALSE, <<191, 191, 239, 191>>))

\* the sequences s and t with s \o t = u and Len(s) = i
Front(u, i) == SubSeq(u, 1, i)
Back(u, i) == SubSeq(u, i + 1, Len(u))

\* the UTF-8 encodings of s and of t concatenate to that of s followed by t:
\* no surrogate pair is formed where they meet
EncodingsConcatenate(s, t) ==
    Utf8All(Scalars(s)) \o Utf8All(Scalars(t)) = Utf8All(Scalars(s \o t))

\* x * 256^m + y for bigints x >= 0 and y >= 0
ShiftAdd(x, m, y) == JSBigInt(FALSE, AddMag(ShiftLeft(x.mag, 8 * m), y.mag))

\* C28: for texts s and t whose UTF-8 encodings concatenate to that of s + t,
\* stringToBigInt(s + t) = stringToBigInt(s) * 256^m + stringToBigInt(t) with
\* m the number of UTF-8 bytes of t, also when s or t is empty and the call
\* returns 0 at once.
C28_ConcatenationLaw ==
    (given.call = "stringToBigInt" /\ given.args[1].kind = "string"
        /\ last.call = "toBigInt") =>
        \A i \in 0..Len(SeedText) :
            LET s == Front(SeedText, i)
                t == Back(SeedText, i)
                m == Len(Utf8All(Scalars(t)))
            IN  EncodingsConcatenate(s, t)
                    => last.out = Return(ShiftAdd(SeedValue(s).val, m, SeedValue(t).val))

\* stringToBigInt('hello').toBigInt() has returned 0x68656c6c6f, which is
\* 0x6865 * 256^3 + 0x6c6c6f, the values of 'he' and 'llo'
C28_Witness ==
    /\ given.call = "stringToBigInt"
    /\ SeedText = <<104, 101, 108, 108, 111>>
    /\ last.call = "toBigInt"
    /\ last.out = Return(JSBigInt(FALSE, <<111, 108, 108, 101, 104>>))
    /\ SeedValue(<<104, 101>>).val = JSBigInt(FALSE, <<101, 104>>)
    /\ SeedValue(<<108, 108, 111>>).val = JSBigInt(FALSE, <<111, 108, 108>>)
    /\ last.out.val = ShiftAdd(JSBigInt(FALSE, <<101, 104>>), 3,
                               JSBigInt(FALSE, <<111, 108, 108>>))

\* the instance made of the result of a conversion: new BigIntCoercion(r) for
\* a bigint r, new BigIntCoercion(BigInt(r)) for a number r
Rewrapped(r) == [value |-> BigIntOf(r)]

\* C29: wrapping a value to N bits, signed or unsigned, and wrapping the
\* result to M <= N bits, signed or unsigned, gives what wrapping the value to
\* M bits gives, for N and M in {8, 16, 32, 64} (toInt8 .. toUint32,
\* toBigInt64, toBigUint64); so wrapping a wrapped value again at the same
\* width and signedness returns it unchanged.
C29_NarrowingComposes ==
    \A self \in heap :
        last.call \in (DOMAIN UnsignedWidth \cup DOMAIN SignedWidth) =>
            /\ \A name \in DOMAIN UnsignedWidth \cup DOMAIN SignedWidth :
                   WidthOf(name) <= WidthOf(last.call)
                       => Conversion(name, Rewrapped(last.out.val))
                              = Conversion(name, self)
            /\ Conversion(last.call, Rewrapped(last.out.val)) = last.out

\* toUint16 of -1 has returned 65535, whose toInt8 is the -1 that toInt8 of -1
\* is, and whose toUint16 is 65535 again
C29_Witness ==
    /\ heap = {[value |-> MinusOne]}
    /\ last.call = "toUint16"
    /\ last.out = Return(JSNumber(FALSE, <<255, 255>>))
    /\ toInt8(Rewrapped(last.out.val)) = Return(JSNumber(TRUE, <<1>>))
    /\ toInt8([value |-> MinusOne]) = Return(JSNumber(TRUE, <<1>>))
    /\ toUint16(Rewrapped(last.out.val)) = last.out

\* the value of an instance modulo 2^21
Residue21(self) ==
    LET low == NatOfMag(LowBits(self.value.mag, 21))
    IN  IF self.value.neg /\ low # 0 THEN 2097152 - low ELSE low

\* C30: the code point toCodePoint hands to String.fromCodePoint lies in
\* 0..0x10FFFF for every value, so the call never ends in a RangeError; a
\* residue c above 0x10FFFF is rendered as 0x100000 + (c mod 2^16), of
\* 0x100000..0x10FFFF; the rendered code point may be a surrogate of
\* 0xD800..0xDFFF, which is no Unicode scalar: a residue in that range is
\* returned as that one code unit.
C30_CodePointInRange ==
    \A self \in heap :
        last.call = "toCodePoint" =>
            /\ last.out.tag = "return"
            /\ last.out.err # "RangeError"
            /\ LET c == Residue21(self)
                   passed == CodePointOf(last.out.val.units)
               IN  /\ passed >= 0 /\ passed <= 1114111
                   /\ c > 1114111 =>
                          (passed = 1048576 + (c % 65536)
                              /\ passed >= 1048576 /\ passed <= 1114111)
                   /\ c <= 1114111 => passed = c
                   /\ (c >= 55296 /\ c <= 57343) => last.out.val.units = <<c>>

\* toCodePoint of 0xD800 has returned the high surrogate 0xD800 alone
C30_Witness ==
    /\ heap = {[value |-> JSBigInt(FALSE, <<0, 216>>)]}
    /\ last.call = "toCodePoint"
    /\ last.out = Return(JSString(<<55296>>))

=============================================================================
